---- MODULE Spec2Model ----
(***************************************************************************)
(* A model of mcp_coordinator's McpClientManager                           *)
(* (src/src/mcp_coordinator/core/client.py): the manager-wide connection   *)
(* state, the session / tool-cache / context maps, and the coroutines      *)
(* call_tool, list_tools and cleanup, interleaved at their await points    *)
(* by the asyncio event loop.  initialize() is synchronous: one step.      *)
(*                                                                         *)
(* A step of a task is the code that runs between two suspension points.   *)
(* An object is opened at the step that resumes from its __aenter__ and    *)
(* closed at the step that starts awaiting its __aexit__.                  *)
(***************************************************************************)
EXTENDS Integers, FiniteSets, Sequences, TLC

\* ------------------------------------------------------------------ bounds
MaxOps == 2     \* coroutines started in a run (call_tool, list_tools, cleanup)

MaxServers == 11    \* servers of the configuration file given to discover_all_servers
MaxMixed == 2       \* ... of which so many may all misbehave, each in its own way

MaxPath == 2        \* directories in a PATH given to _resolve_command
MaxHolders == 2     \* directories that hold the command

MaxCallers == 3     \* call_tool coroutines racing on one CoordinatorClient

Tasks == {"t1", "t2"}
Servers == {"s1", "s2", "s3"}
ConfigFiles == {"cfgA", "cfgB"}
Ids == 1..MaxOps    \* a coroutine creates at most one transport object
None == 0           \* Python's None where an object (an id) is expected
Null == "none"      \* Python's None where the model uses a string

\* ------------------------------------------------------------------ ConnectionState
UNINITIALIZED == "uninitialized"
INITIALIZED == "initialized"
CONNECTED == "connected"

state_order == <<UNINITIALIZED, INITIALIZED, CONNECTED>>

StateIndex(st) == CHOOSE i \in 1..3 : state_order[i] = st

\* ------------------------------------------------------------------ configuration
\* The content of the two configuration files the runs load.  A ServerConfig
\* has a transport type, a disabled flag and a launch target (command or url).
\*   cfgA: s1 stdio; s2 sse; s3 stdio, disabled, without a command
\*   cfgB: s2 sse, disabled; s3 of the unknown type "ws"; s1 absent
McpConfig(c) ==
    IF c = "cfgA"
    THEN [s \in {"s1", "s2", "s3"} |->
            CASE s = "s1" -> [type |-> "stdio", disabled |-> FALSE, target |-> TRUE]
              [] s = "s2" -> [type |-> "sse", disabled |-> FALSE, target |-> TRUE]
              [] OTHER    -> [type |-> "stdio", disabled |-> TRUE, target |-> FALSE]]
    ELSE [s \in {"s2", "s3"} |->
            CASE s = "s2" -> [type |-> "sse", disabled |-> TRUE, target |-> TRUE]
              [] OTHER    -> [type |-> "ws", disabled |-> FALSE, target |-> TRUE]]

\* McpConfig.get_server: the server's ServerConfig, or None (NoServerConfig)
NoServerConfig == [type |-> Null, disabled |-> FALSE, target |-> FALSE]

get_server(c, s) ==
    IF c # Null /\ s \in DOMAIN McpConfig(c) THEN McpConfig(c)[s] ELSE NoServerConfig

\* ------------------------------------------------------------------ state
VARIABLES
    state,              \* self.state
    config,             \* self.config: None or the configuration loaded
    sessions,           \* self.sessions: server -> session id, or None
    tools_cache,        \* self.tools_cache: server -> id of the session that listed, or None
    stdio_contexts,     \* self._stdio_contexts
    session_contexts,   \* self._session_contexts
    read_streams,       \* self._read_streams
    write_streams,      \* self._write_streams
    transports,         \* the world: id -> "none" | "open" | "closed"
    clientSessions,     \* the world: id -> "none" | "open" | "closed"
    idServer,           \* id -> the server the attempt was for, or None
    nextId,             \* the next transport object to create
    task,               \* each caller: its operation, position, locals and last result
    ops                 \* coroutines started so far

\* discover_all_servers (discovery.py), which uses no McpClientManager
VARIABLES
    configs,            \* the server names loaded from the file, 1..n in file order
    behaviour,          \* input: what each server does at each await of its introspection
    semaphore,          \* asyncio.Semaphore(10): its value and its queue of waiters
    discover,           \* each _discover_one task: "new", "waiting", "running", "done"
    results_list,       \* the (name, record) pairs of the finished tasks
    results,            \* the dict discover_all_servers returned, or NotReturned
    contexts            \* the world: each introspection's transport and session contexts

dvars == <<configs, behaviour, semaphore, discover, results_list, results, contexts>>

\* McpClientManager._connect_stdio up to its call of _resolve_command
VARIABLES
    sys_platform,       \* sys.platform
    os_environ,         \* os.environ: PATH, APPDATA, LOCALAPPDATA
    nvm_versions,       \* ~/.nvm/versions/node: missing, or its entries as iterdir() yields them
    executables,        \* the directories that hold an executable file named as the command
    server_env,         \* config.env of the server: its PATH entry
    env,                \* the env dict handed to _resolve_command and then to the subprocess
    env_before,         \* env as it was when _resolve_command was called
    resolved,           \* what _resolve_command returned
    rpc                 \* position in _connect_stdio: "prepare", "resolve", "done"

rvars == <<sys_platform, os_environ, nvm_versions, executables, server_env, env,
           env_before, resolved, rpc>>

\* CoordinatorClient (coordinator_client.py)
VARIABLES
    cc_sessions,        \* self.sessions: server -> id of the session stored, or None
    cc_stdio_contexts,  \* self._stdio_contexts: server -> id of the transport stored, or None
    cc_connection_locks,\* self._connection_locks: server -> no lock, or its holder and waiters
    cc_launched,        \* the world: every connection attempt that launched, in launch order
    cc_task,            \* each call_tool coroutine: its position, server and result
    cc_close            \* the close() coroutine: its position and the items left to close

cvars == <<cc_sessions, cc_stdio_contexts, cc_connection_locks, cc_launched, cc_task,
           cc_close>>

vars == <<state, config, sessions, tools_cache, stdio_contexts, session_contexts,
          read_streams, write_streams, transports, clientSessions, idServer,
          nextId, task, ops>>

maps == <<sessions, tools_cache, stdio_contexts, session_contexts,
          read_streams, write_streams>>

world == <<transports, clientSessions, idServer, nextId>>

EmptyMap == [s \in Servers |-> None]

Keys(m) == {s \in Servers : m[s] # None}

IdleTask == [pc |-> "idle", op |-> Null, srv |-> Null, sid |-> None,
             err |-> Null, res |-> Null, todo |-> {}, cached |-> FALSE]

\* a task whose operation returned or raised: res is the result, the locals are gone
Finish(r, res) == [r EXCEPT !.pc = "done", !.res = res, !.sid = None, !.err = Null,
                            !.todo = {}]

\* no discover_all_servers is running
NotReturned == [returned |-> FALSE, dict |-> <<>>]

NoDiscovery ==
    /\ configs = {}
    /\ behaviour = <<>>
    /\ semaphore = [value |-> 0, waiters |-> <<>>]
    /\ discover = <<>>
    /\ results_list = <<>>
    /\ results = NotReturned
    /\ contexts = <<>>

\* a dict without the key PATH, and one whose PATH lists the directories ds
NoPath == [has |-> FALSE, dirs |-> <<>>]

Path(ds) == [has |-> TRUE, dirs |-> ds]

\* no _connect_stdio is running
NoResolve ==
    /\ sys_platform = Null
    /\ os_environ = [PATH |-> NoPath, APPDATA |-> FALSE, LOCALAPPDATA |-> FALSE]
    /\ nvm_versions = [exists |-> FALSE, entries |-> <<>>]
    /\ executables = {}
    /\ server_env = NoPath
    /\ env = NoPath
    /\ env_before = NoPath
    /\ resolved = Null
    /\ rpc = Null

\* no CoordinatorClient exists
NoCoordinator ==
    /\ cc_sessions = <<>>
    /\ cc_stdio_contexts = <<>>
    /\ cc_connection_locks = <<>>
    /\ cc_launched = <<>>
    /\ cc_task = <<>>
    /\ cc_close = <<>>

\* McpClientManager.__init__
__init__ ==
    /\ state = UNINITIALIZED
    /\ config = Null
    /\ sessions = EmptyMap
    /\ tools_cache = EmptyMap
    /\ stdio_contexts = EmptyMap
    /\ session_contexts = EmptyMap
    /\ read_streams = EmptyMap
    /\ write_streams = EmptyMap
    /\ transports = [i \in Ids |-> "none"]
    /\ clientSessions = [i \in Ids |-> "none"]
    /\ idServer = [i \in Ids |-> Null]
    /\ nextId = 1
    /\ task = [t \in Tasks |-> IdleTask]
    /\ ops = 0

Init == __init__ /\ NoDiscovery /\ NoResolve /\ NoCoordinator

\* ------------------------------------------------------------------ state marks
\* _validate_state_at_least with the comparison dropped
validate_state_never(minimum_state) == TRUE

\* _validate_state_at_least: TRUE when the operation may proceed
_validate_state_at_least(minimum_state) ==
    ~ (StateIndex(state) < StateIndex(minimum_state))

\* _mark_initialized taking the manager straight to CONNECTED
mark_initialized_as_connected == CONNECTED

_mark_initialized == INITIALIZED

_mark_connected == IF state = INITIALIZED THEN CONNECTED ELSE state

_mark_uninitialized == UNINITIALIZED

\* ------------------------------------------------------------------ initialize
\* initialize(config_path).  config_path is None, a file that exists, or
\* "missing" (a path that does not exist).  With config_path None the first
\* existing path of possible_paths decides: `found` is a configuration file
\* (mcp.json, mcp_servers.json or $MCP_JSON), "nothing" ($MCP_JSON names a
\* path that does not exist, so the loop loads nothing), or "cwd" ($MCP_JSON
\* is unset: Path("") is the current directory, which exists and which open()
\* refuses).
InitPaths == ConfigFiles \cup {Null, "missing"}
InitFound == ConfigFiles \cup {"nothing", "cwd"}

InitResult(path, found) ==
    IF path # Null
    THEN IF path = "missing" THEN "FileNotFoundError" ELSE "ok"
    ELSE IF found \in ConfigFiles THEN "ok"
         ELSE IF found = "cwd" THEN "IsADirectoryError"
         ELSE IF config = Null THEN "FileNotFoundError" ELSE "ok"

InitConfig(path, found) ==
    IF path \in ConfigFiles THEN path
    ELSE IF path = Null /\ found \in ConfigFiles THEN found
    ELSE config

\* what the call located: the explicit path, a default location, or nothing
InitLocated(path, found) ==
    IF path # Null THEN "explicit"
    ELSE IF found \in ConfigFiles THEN "default"
    ELSE found

\* initialize() is synchronous: the task that calls it runs it in one step.
\* The record of the call keeps what it located (in srv) and its result.
initialize(t, path, found) ==
    /\ task[t].pc = "idle"
    /\ task' = [task EXCEPT ![t] =
            Finish([IdleTask EXCEPT !.op = "initialize", !.srv = InitLocated(path, found)],
                   InitResult(path, found))]
    /\ config' = InitConfig(path, found)
    /\ state' = IF InitResult(path, found) = "ok" THEN _mark_initialized ELSE state
    /\ UNCHANGED <<maps, world, ops>>

\* ------------------------------------------------------------------ _cleanup_server
\* _cleanup_server(server_name) runs in the except clause of
\* _connect_to_server; r is the task's record, r.err the exception to re-raise.
\* Its two awaits (the contexts' __aexit__) are suspension points; the del
\* after each await raises KeyError when the entry is gone by then.

\* the deletions made for every server, not for the one of the attempt
CleanupServerRestOfAll(t, r) ==
    /\ sessions' = EmptyMap
    /\ read_streams' = EmptyMap
    /\ write_streams' = EmptyMap
    /\ task' = [task EXCEPT ![t] = Finish(r, r.err)]

\* lines 328-334 and the re-raise of line 167
CleanupServerRest(t, r) ==
    /\ sessions' = [sessions EXCEPT ![r.srv] = None]
    /\ read_streams' = [read_streams EXCEPT ![r.srv] = None]
    /\ write_streams' = [write_streams EXCEPT ![r.srv] = None]
    /\ task' = [task EXCEPT ![t] = Finish(r, r.err)]

\* lines 321-323: close the transport recorded for the server, if any
CleanupServerTransport(t, r) ==
    IF stdio_contexts[r.srv] # None
    THEN /\ transports' = [transports EXCEPT ![stdio_contexts[r.srv]] = "closed"]
         /\ task' = [task EXCEPT ![t] = [r EXCEPT !.pc = "cs_transport"]]
         /\ UNCHANGED <<sessions, read_streams, write_streams>>
    ELSE /\ transports' = transports
         /\ CleanupServerRest(t, r)

\* lines 313-315: close the session context recorded for the server, if any
_cleanup_server(t, r) ==
    IF session_contexts[r.srv] # None
    THEN /\ clientSessions' = [clientSessions EXCEPT ![session_contexts[r.srv]] = "closed"]
         /\ task' = [task EXCEPT ![t] = [r EXCEPT !.pc = "cs_session"]]
         /\ UNCHANGED <<transports, sessions, read_streams, write_streams>>
    ELSE /\ clientSessions' = clientSessions
         /\ CleanupServerTransport(t, r)

\* line 318, after the session context's __aexit__ returned
CleanupServerAfterSession(t) ==
    /\ task[t].pc = "cs_session"
    /\ IF session_contexts[task[t].srv] = None
       THEN /\ task' = [task EXCEPT ![t] = Finish(task[t], "KeyError")]
            /\ UNCHANGED <<session_contexts, transports, sessions, read_streams, write_streams>>
       ELSE /\ session_contexts' = [session_contexts EXCEPT ![task[t].srv] = None]
            /\ CleanupServerTransport(t, task[t])
    /\ UNCHANGED <<state, config, tools_cache, stdio_contexts, clientSessions,
                   idServer, nextId, ops>>

\* line 326, after the transport context's __aexit__ returned
CleanupServerAfterTransport(t) ==
    /\ task[t].pc = "cs_transport"
    /\ IF stdio_contexts[task[t].srv] = None
       THEN /\ task' = [task EXCEPT ![t] = Finish(task[t], "KeyError")]
            /\ UNCHANGED <<stdio_contexts, sessions, read_streams, write_streams>>
       ELSE /\ stdio_contexts' = [stdio_contexts EXCEPT ![task[t].srv] = None]
            /\ CleanupServerRest(t, task[t])
    /\ UNCHANGED <<state, config, tools_cache, session_contexts, transports,
                   clientSessions, idServer, nextId, ops>>

\* ------------------------------------------------------------------ _connect_to_server
\* The synchronous start of _connect_to_server for the task record r (its op,
\* and srv set): the session found in the map, or a transport object
\* created and its __aenter__ awaited, or the exception of an unsupported
\* type or a missing command / url, handled by _cleanup_server.
SessionKnown(s) == sessions[s] # None

\* every transport type taken for a supported one
AnyTransportSupported(server_config) == TRUE

\* lines 152-157: the types the dispatch of _connect_to_server knows
SupportedTransport(server_config) == server_config.type \in {"stdio", "sse"}

_connect_to_server(t, r, server_config) ==
    IF SessionKnown(r.srv)
    THEN /\ task' = [task EXCEPT ![t] =
                [r EXCEPT !.pc = IF r.op = "call_tool" THEN "call" ELSE "list",
                          !.sid = sessions[r.srv]]]
         /\ UNCHANGED <<sessions, read_streams, write_streams, transports,
                        clientSessions, idServer, nextId>>
    ELSE IF ~ SupportedTransport(server_config)
    THEN /\ _cleanup_server(t, [r EXCEPT !.err = "UnsupportedTransport"])
         /\ UNCHANGED <<idServer, nextId>>
    ELSE IF ~ server_config.target
    THEN /\ _cleanup_server(t, [r EXCEPT !.err = "MissingCommand"])
         /\ UNCHANGED <<idServer, nextId>>
    ELSE /\ nextId \in Ids
         /\ nextId' = nextId + 1
         /\ idServer' = [idServer EXCEPT ![nextId] = r.srv]
         /\ task' = [task EXCEPT ![t] = [r EXCEPT !.pc = "open_transport", !.sid = nextId]]
         /\ UNCHANGED <<sessions, read_streams, write_streams, transports, clientSessions>>

\* ------------------------------------------------------------------ call_tool, list_tools
CanStart(t) == task[t].pc = "idle" /\ ops < MaxOps

Raise(t, r, e) == task' = [task EXCEPT ![t] = Finish(r, e)]

\* the disabled flag ignored
DisabledIgnored(server_config) == FALSE

\* line 347: if server_config.disabled
Disabled(server_config) == server_config.disabled

\* call_tool, up to its first suspension point
call_tool(t, s) ==
    LET r == [IdleTask EXCEPT !.op = "call_tool", !.srv = s]
        server_config == get_server(config, s)
    IN  /\ CanStart(t)
        /\ ops' = ops + 1
        /\ IF ~ _validate_state_at_least(INITIALIZED)
           THEN /\ Raise(t, r, "RuntimeError:state")
                /\ UNCHANGED <<sessions, read_streams, write_streams, world>>
           ELSE IF config = Null
           THEN /\ Raise(t, r, "RuntimeError:config")
                /\ UNCHANGED <<sessions, read_streams, write_streams, world>>
           ELSE IF server_config = NoServerConfig
           THEN /\ Raise(t, r, "ServerNotFound")
                /\ UNCHANGED <<sessions, read_streams, write_streams, world>>
           ELSE IF Disabled(server_config)
           THEN /\ Raise(t, r, "ServerDisabled")
                /\ UNCHANGED <<sessions, read_streams, write_streams, world>>
           ELSE _connect_to_server(t, r, server_config)
        /\ UNCHANGED <<state, config, tools_cache, stdio_contexts, session_contexts>>

\* the cache never consulted
CacheNeverHit(s) == FALSE

\* line 368: if server_name in self.tools_cache
CacheHit(s) == tools_cache[s] # None

\* list_tools, up to its first suspension point
list_tools(t, s) ==
    LET r == [IdleTask EXCEPT !.op = "list_tools", !.srv = s]
        server_config == get_server(config, s)
    IN  /\ CanStart(t)
        /\ ops' = ops + 1
        /\ IF ~ _validate_state_at_least(INITIALIZED)
           THEN /\ Raise(t, r, "RuntimeError:state")
                /\ UNCHANGED <<sessions, read_streams, write_streams, world>>
           ELSE IF CacheHit(s)
           THEN /\ task' = [task EXCEPT ![t] = [Finish(r, "ok") EXCEPT !.cached = TRUE]]
                /\ UNCHANGED <<sessions, read_streams, write_streams, world>>
           ELSE IF config = Null
           THEN /\ Raise(t, r, "RuntimeError:config")
                /\ UNCHANGED <<sessions, read_streams, write_streams, world>>
           ELSE IF server_config = NoServerConfig
           THEN /\ Raise(t, r, "ServerNotFound")
                /\ UNCHANGED <<sessions, read_streams, write_streams, world>>
           ELSE _connect_to_server(t, r, server_config)
        /\ UNCHANGED <<state, config, tools_cache, stdio_contexts, session_contexts>>

\* ------------------------------------------------------------------ _connect_stdio, _connect_sse
\* The inner _connect() of _connect_stdio and of _connect_sse (the same code
\* but for the transport's constructor), under asyncio.wait_for: each of its
\* three awaits returns ("ok"), raises ("error") or is cancelled by the
\* connect timeout ("timeout"); an exception reaches the except clause of
\* _connect_to_server, which runs _cleanup_server and re-raises.
Outcomes == {"ok", "error", "timeout"}

ConnectError(o, e) == IF o = "timeout" THEN "TimeoutError" ELSE e

\* streams = await stdio_ctx.__aenter__(), then the three map stores
ConnectTransport(t, o) ==
    LET r == task[t] IN
    /\ r.pc = "open_transport"
    /\ IF o = "ok"
       THEN /\ transports' = [transports EXCEPT ![r.sid] = "open"]
            /\ stdio_contexts' = [stdio_contexts EXCEPT ![r.srv] = r.sid]
            /\ read_streams' = [read_streams EXCEPT ![r.srv] = r.sid]
            /\ write_streams' = [write_streams EXCEPT ![r.srv] = r.sid]
            /\ task' = [task EXCEPT ![t].pc = "open_session"]
            /\ UNCHANGED <<sessions, clientSessions>>
       ELSE /\ _cleanup_server(t, [r EXCEPT !.err = ConnectError(o, "ConnectError")])
            /\ UNCHANGED stdio_contexts
    /\ UNCHANGED <<state, config, tools_cache, session_contexts, idServer, nextId, ops>>

\* client = await session.__aenter__(), then the store in _session_contexts
ConnectSession(t, o) ==
    LET r == task[t] IN
    /\ r.pc = "open_session"
    /\ IF o = "ok"
       THEN /\ clientSessions' = [clientSessions EXCEPT ![r.sid] = "open"]
            /\ session_contexts' = [session_contexts EXCEPT ![r.srv] = r.sid]
            /\ task' = [task EXCEPT ![t].pc = "handshake"]
            /\ UNCHANGED <<sessions, read_streams, write_streams, transports>>
       ELSE /\ _cleanup_server(t, [r EXCEPT !.err = ConnectError(o, "ConnectError")])
            /\ UNCHANGED session_contexts
    /\ UNCHANGED <<state, config, tools_cache, stdio_contexts, idServer, nextId, ops>>

\* a session answers only while it and its transport are open
Usable(i) == transports[i] = "open" /\ clientSessions[i] = "open"

\* await client.initialize(); then lines 159-161 of _connect_to_server and the
\* caller's next await (session.call_tool or session.list_tools)
ConnectHandshake(t, o) ==
    LET r == task[t] IN
    /\ r.pc = "handshake"
    /\ o = "ok" => Usable(r.sid)
    /\ IF o = "ok"
       THEN /\ sessions' = [sessions EXCEPT ![r.srv] = r.sid]
            /\ state' = _mark_connected
            /\ task' = [task EXCEPT ![t].pc = IF r.op = "call_tool" THEN "call" ELSE "list"]
            /\ UNCHANGED <<read_streams, write_streams, transports, clientSessions>>
       ELSE /\ _cleanup_server(t, [r EXCEPT !.err = ConnectError(o, "HandshakeFailure")])
            /\ UNCHANGED state
    /\ UNCHANGED <<config, tools_cache, stdio_contexts, session_contexts, idServer,
                   nextId, ops>>

\* ------------------------------------------------------------------ the calls on a session
\* a read timeout that tears the server's session down
SessionCallToolTearingDown(t, o) ==
    LET r == task[t] IN
    /\ r.pc = "call"
    /\ o = "ok" => Usable(r.sid)
    /\ task' = [task EXCEPT ![t] = Finish(r, CASE o = "ok" -> "ok"
                                                [] o = "timeout" -> "ReadTimeout"
                                                [] OTHER -> "UnderlyingError")]
    /\ sessions' = IF o = "timeout" THEN [sessions EXCEPT ![r.srv] = None] ELSE sessions
    /\ UNCHANGED <<state, config, tools_cache, stdio_contexts, session_contexts,
                   read_streams, write_streams, world, ops>>

\* await asyncio.wait_for(session.call_tool(...), timeout=self.read_timeout):
\* the timeout is caught and raised again as the read-timeout error; any other
\* exception of the session has no except clause and reaches the caller as it
\* was raised ("UnderlyingError")
SessionCallTool(t, o) ==
    LET r == task[t] IN
    /\ r.pc = "call"
    /\ o = "ok" => Usable(r.sid)
    /\ task' = [task EXCEPT ![t] = Finish(r, CASE o = "ok" -> "ok"
                                                [] o = "timeout" -> "ReadTimeout"
                                                [] OTHER -> "UnderlyingError")]
    /\ UNCHANGED <<state, config, maps, world, ops>>

\* result = await session.list_tools(); self.tools_cache[server_name] = tools
\* (no timeout bounds this await)
SessionListTools(t, o) ==
    LET r == task[t] IN
    /\ r.pc = "list"
    /\ o \in {"ok", "error"}
    /\ o = "ok" => Usable(r.sid)
    /\ IF o = "ok"
       THEN /\ tools_cache' = [tools_cache EXCEPT ![r.srv] = r.sid]
            /\ task' = [task EXCEPT ![t] = Finish(r, "ok")]
       ELSE /\ task' = [task EXCEPT ![t] = Finish(r, "UnderlyingError")]
            /\ UNCHANGED tools_cache
    /\ UNCHANGED <<state, config, sessions, stdio_contexts, session_contexts,
                   read_streams, write_streams, world, ops>>

\* ------------------------------------------------------------------ cleanup
\* cleanup(): two loops over a snapshot of the keys of _session_contexts and
\* of _stdio_contexts, each iteration awaiting one __aexit__ (a lookup that
\* fails is caught and the loop goes on without suspending), then the clears
\* and _mark_uninitialized.  The keys are taken in any order.

\* the clears without the one of the tool cache
CleanupClearKeepingCache(t, r) ==
    /\ sessions' = EmptyMap
    /\ tools_cache' = tools_cache
    /\ session_contexts' = EmptyMap
    /\ stdio_contexts' = EmptyMap
    /\ read_streams' = EmptyMap
    /\ write_streams' = EmptyMap
    /\ state' = _mark_uninitialized
    /\ task' = [task EXCEPT ![t] = Finish(r, "ok")]

\* lines 415-422
CleanupClear(t, r) ==
    /\ sessions' = EmptyMap
    /\ tools_cache' = EmptyMap
    /\ session_contexts' = EmptyMap
    /\ stdio_contexts' = EmptyMap
    /\ read_streams' = EmptyMap
    /\ write_streams' = EmptyMap
    /\ state' = _mark_uninitialized
    /\ task' = [task EXCEPT ![t] = Finish(r, "ok")]

\* lines 404-413, with todo the keys of the snapshot not yet visited
CleanupTransports(t, r, todo) ==
    IF \E k \in todo : stdio_contexts[k] # None
    THEN /\ \E k \in todo, skipped \in SUBSET {j \in todo : stdio_contexts[j] = None} :
             /\ stdio_contexts[k] # None
             /\ transports' = [transports EXCEPT ![stdio_contexts[k]] = "closed"]
             /\ task' = [task EXCEPT ![t] =
                     [r EXCEPT !.pc = "cl_transports", !.todo = todo \ ({k} \cup skipped)]]
         /\ UNCHANGED <<state, maps>>
    ELSE /\ transports' = transports
         /\ CleanupClear(t, r)

\* lines 392-401, with todo the keys of the snapshot not yet visited
CleanupSessions(t, r, todo) ==
    IF \E k \in todo : session_contexts[k] # None
    THEN /\ \E k \in todo, skipped \in SUBSET {j \in todo : session_contexts[j] = None} :
             /\ session_contexts[k] # None
             /\ clientSessions' = [clientSessions EXCEPT ![session_contexts[k]] = "closed"]
             /\ task' = [task EXCEPT ![t] =
                     [r EXCEPT !.pc = "cl_sessions", !.todo = todo \ ({k} \cup skipped)]]
         /\ UNCHANGED <<state, maps, transports>>
    ELSE /\ clientSessions' = clientSessions
         /\ CleanupTransports(t, r, Keys(stdio_contexts))

\* cleanup(), up to its first suspension point
cleanup(t) ==
    /\ CanStart(t)
    /\ ops' = ops + 1
    /\ CleanupSessions(t, [IdleTask EXCEPT !.op = "cleanup"], Keys(session_contexts))
    /\ UNCHANGED <<config, idServer, nextId>>

\* What an awaited __aexit__ does in cleanup(): it returns, raises an ordinary
\* error, raises the RuntimeError of a cancel scope left in another task than
\* the one that entered it, or raises asyncio.CancelledError.
CloseOutcomes == {"ok", "error", "cancel_scope", "cancelled"}

\* every close outcome caught
CleanupCatchesAll(o) == TRUE

\* lines 395 and 408, `except Exception`: asyncio.CancelledError derives from
\* BaseException and is not caught (the isinstance test of lines 398 and 411
\* is inside the handler, which it never reaches)
CleanupCatches(o) == o # "cancelled"

\* the exception leaves cleanup(): nothing is cleared, the state is not reset
CleanupRaises(t, e) ==
    /\ task' = [task EXCEPT ![t] = Finish(task[t], e)]
    /\ UNCHANGED <<state, maps, transports, clientSessions>>

\* cleanup() resumed after a session context's __aexit__
CleanupAfterSession(t, o) ==
    /\ task[t].pc = "cl_sessions"
    /\ IF o = "ok" \/ CleanupCatches(o)
       THEN CleanupSessions(t, task[t], task[t].todo)
       ELSE CleanupRaises(t, "CancelledError")
    /\ UNCHANGED <<config, idServer, nextId, ops>>

\* cleanup() resumed after a transport context's __aexit__
CleanupAfterTransport(t, o) ==
    /\ task[t].pc = "cl_transports"
    /\ IF o = "ok" \/ CleanupCatches(o)
       THEN CleanupTransports(t, task[t], task[t].todo)
       ELSE CleanupRaises(t, "CancelledError")
    /\ UNCHANGED <<config, clientSessions, idServer, nextId, ops>>

\* ------------------------------------------------------------------ the callers
\* The operation's result (its value or its exception) reaches the caller,
\* which may then start another operation.  An awaited coroutine returns into
\* its caller within the same event loop step, so nothing runs in between.
Return(t) ==
    /\ task[t].pc = "done"
    /\ task' = [task EXCEPT ![t] = IdleTask]
    /\ UNCHANGED <<state, config, maps, world, ops>>

\* ------------------------------------------------------------------ specification
Step ==
    \/ \E t \in Tasks, path \in InitPaths, found \in InitFound : initialize(t, path, found)
    \/ \E t \in Tasks, s \in Servers : call_tool(t, s)
    \/ \E t \in Tasks, s \in Servers : list_tools(t, s)
    \/ \E t \in Tasks : cleanup(t)
    \/ \E t \in Tasks, o \in Outcomes : ConnectTransport(t, o)
    \/ \E t \in Tasks, o \in Outcomes : ConnectSession(t, o)
    \/ \E t \in Tasks, o \in Outcomes : ConnectHandshake(t, o)
    \/ \E t \in Tasks : CleanupServerAfterSession(t)
    \/ \E t \in Tasks : CleanupServerAfterTransport(t)
    \/ \E t \in Tasks, o \in Outcomes : SessionCallTool(t, o)
    \/ \E t \in Tasks, o \in Outcomes : SessionListTools(t, o)
    \/ \E t \in Tasks, o \in CloseOutcomes : CleanupAfterSession(t, o)
    \/ \E t \in Tasks, o \in CloseOutcomes : CleanupAfterTransport(t, o)

Next ==
    \/ (\A t \in Tasks : task[t].pc # "done") /\ Step /\ UNCHANGED <<dvars, rvars, cvars>>
    \/ (\E t \in Tasks : Return(t)) /\ UNCHANGED <<dvars, rvars, cvars>>

Spec == Init /\ [][Next]_vars

\* The steps of task t that the code bounds: the awaits under
\* asyncio.wait_for (the connection under connect_timeout, the tool call under
\* read_timeout) and the closing of local contexts.  The await of
\* session.list_tools() (line 381) is under no timeout: it resumes only if the
\* server answers.  The event loop resumes every coroutine whose await has
\* ended, however often other coroutines run in between (strong fairness).
BoundedStep(t) ==
    /\ \A u \in Tasks : task[u].pc # "done"
    /\ \/ \E o \in Outcomes : ConnectTransport(t, o)
       \/ \E o \in Outcomes : ConnectSession(t, o)
       \/ \E o \in Outcomes : ConnectHandshake(t, o)
       \/ \E o \in Outcomes : SessionCallTool(t, o)
       \/ CleanupServerAfterSession(t)
       \/ CleanupServerAfterTransport(t)
       \/ \E o \in CloseOutcomes : CleanupAfterSession(t, o)
       \/ \E o \in CloseOutcomes : CleanupAfterTransport(t, o)

FairSpec ==
    Init /\ [][Next]_vars /\ \A t \in Tasks : SF_vars(BoundedStep(t)) /\ WF_vars(Return(t))

\* ================================================================== discovery.py
\* discover_all_servers: one _discover_one task per configured server, all
\* started by asyncio.gather, each holding a slot of the semaphore while its
\* ServerIntrospector.discover_tools runs under asyncio.wait_for.  The awaits
\* of discover_tools touch nothing shared (each introspector has its own
\* transport and session), so a task's run from the slot to its record is one
\* step; what the server does at each await is the input `behaviour`.

\* ------------------------------------------------------------------ the servers' behaviour
\* the awaits of discover_tools, in program order (lines 132, 133, 137, 140,
\* 152, 168, and the exits of the two `async with`)
Awaits == <<"transport", "session", "initialize", "list_tools", "list_resources",
            "list_prompts", "close">>

AwaitNames == {Awaits[k] : k \in DOMAIN Awaits}

\* the awaits inside _discover, which runs under asyncio.wait_for(..., 10.0)
InDiscover == {"initialize", "list_tools", "list_resources", "list_prompts"}

\* the awaits guarded by `try ... except Exception` (lines 151-164, 167-179)
Optional == {"list_resources", "list_prompts"}

\* An await returns, raises an Exception, is cancelled by the 10 s timeout of
\* line 182, or is cancelled by the discovery timeout of line 319.
AwaitOutcomes == {"ok", "error", "inner_timeout", "outer_timeout"}

\* every outcome but "ok" ends the introspection
FatalWhereverItIs(b, k) == b[Awaits[k]] # "ok"

\* the outcome at the k-th await ends discover_tools' try block
Fatal(b, k) ==
    /\ b[Awaits[k]] # "ok"
    /\ ~ (Awaits[k] \in Optional /\ b[Awaits[k]] = "error")

\* a server's behaviour: an outcome for each await, "ok" after the one that
\* ends the introspection
Behaviours ==
    {b \in [AwaitNames -> AwaitOutcomes] :
        /\ \A a \in AwaitNames : b[a] = "inner_timeout" => a \in InDiscover
        /\ \A k \in DOMAIN Awaits : Fatal(b, k)
              => \A j \in DOMAIN Awaits : j > k => b[Awaits[j]] = "ok"}

Healthy == [a \in AwaitNames |-> "ok"]

\* the servers slower than the discovery timeout
Hanging == {b \in Behaviours : \E a \in AwaitNames : b[a] = "outer_timeout"}

\* ------------------------------------------------------------------ ServerIntrospector.discover_tools
NoRecord == [name |-> 0, error |-> Null, tools |-> Null, resources |-> Null,
             prompts |-> Null]

\* lines 184-189
SuccessRecord(name, b) ==
    [name |-> name, error |-> Null, tools |-> "listed",
     resources |-> IF b["list_resources"] = "ok" THEN "listed" ELSE "empty",
     prompts |-> IF b["list_prompts"] = "ok" THEN "listed" ELSE "empty"]

\* lines 202-208, 322-328, 330-336
ErrorRecord(name, error) ==
    [name |-> name, error |-> error, tools |-> "empty", resources |-> "empty",
     prompts |-> "empty"]

Returns(value) == [raised |-> Null, value |-> value]

Raises(e) == [raised |-> e, value |-> NoRecord]

\* the exception that leaves the try block of discover_tools, if any
Raised(b) ==
    LET fatal == {k \in DOMAIN Awaits : Fatal(b, k)}
        first == CHOOSE k \in fatal : \A j \in fatal : k <= j
    IN  IF fatal = {} THEN Null
        ELSE CASE b[Awaits[first]] = "error" -> "Error"
               [] b[Awaits[first]] = "inner_timeout" -> "TimeoutError"
               [] OTHER -> "CancelledError"

\* the contexts discover_tools entered (lines 132-133)
Entered(b) ==
    [transport |-> b["transport"] = "ok",
     session |-> b["transport"] = "ok" /\ b["session"] = "ok"]

\* contexts that are entered and never exited
entered_only(b) ==
    [transport |-> IF Entered(b).transport THEN "open" ELSE "none",
     session |-> IF Entered(b).session THEN "open" ELSE "none"]

\* the two `async with` of lines 132-133 when discover_tools returns: __aexit__
\* has run for each context that was entered, whatever ended the block
async_with(b) ==
    [transport |-> IF Entered(b).transport THEN "closed" ELSE "none",
     session |-> IF Entered(b).session THEN "closed" ELSE "none"]

\* a handler for Exception only
IntrospectorCatchesExceptions(e) == e # "CancelledError"

\* line 191: except BaseException
IntrospectorCatches(e) == TRUE

discover_tools(name, b) ==
    IF Raised(b) = Null THEN Returns(SuccessRecord(name, b))
    ELSE IF IntrospectorCatches(Raised(b)) THEN Returns(ErrorRecord(name, "Failed to connect"))
    ELSE Raises(Raised(b))

\* ------------------------------------------------------------------ _discover_one
\* asyncio.wait_for: the awaited coroutine's own result when it has one, even
\* when the timeout cancelled it; TimeoutError when it ended cancelled
wait_for(r) == IF r.raised = "CancelledError" THEN Raises("TimeoutError") ELSE r

\* a failed introspection reported as a success
discover_one_always_succeeds(name, b) == <<name, SuccessRecord(name, b)>>

\* lines 316-336: the (name, record) pair of one server
_discover_one(name, b) ==
    LET r == wait_for(discover_tools(name, b))
    IN  <<name, CASE r.raised = Null -> r.value
                  [] r.raised = "TimeoutError" -> ErrorRecord(name, "Discovery timed out")
                  [] OTHER -> ErrorRecord(name, "Discovery failed")>>

\* ------------------------------------------------------------------ asyncio.Semaphore
\* no limit on the running discoveries
unlimited(sem) == FALSE

\* a slot that is never given back
release_nothing(sem) == sem

\* Semaphore.locked
locked(sem) == sem.value = 0 \/ Len(sem.waiters) > 0

\* Semaphore.acquire by task i: [sem |-> ..., pc |-> where the task is then]
acquire(sem, i) ==
    IF ~ locked(sem)
    THEN [sem |-> [sem EXCEPT !.value = @ - 1], pc |-> "running"]
    ELSE [sem |-> [sem EXCEPT !.waiters = Append(@, i)], pc |-> "waiting"]

\* Semaphore.release: the slot goes to the first waiter, if any
release(sem) ==
    IF Len(sem.waiters) > 0
    THEN [sem EXCEPT !.waiters = Tail(@)]
    ELSE [sem EXCEPT !.value = @ + 1]

\* ------------------------------------------------------------------ discover_all_servers
DiscoveryConcurrency == 10

\* ConfigLoader.load_from_json and line 312.  The runs: up to MaxServers
\* servers, all healthy or all but one, which hangs; or up to MaxMixed servers
\* of any behaviour.
\* the behaviours of n servers: all healthy; all healthy but one that hangs
\* (when single); all hanging in the same way; or, for few servers, any
InputBehaviours(n, single) ==
    {[i \in 1..n |-> Healthy]}
    \cup (IF single
          THEN {[i \in 1..n |-> IF i = k THEN b ELSE Healthy] : k \in 1..n, b \in Hanging}
          ELSE {})
    \cup {[i \in 1..n |-> b] : b \in Hanging}
    \cup (IF n <= MaxMixed THEN [1..n -> Behaviours] ELSE {})

DiscoveryInputsWith(single) ==
    /\ \E n \in 0..MaxServers :
         /\ configs = 1..n
         /\ behaviour \in InputBehaviours(n, single)
         /\ discover = [i \in 1..n |-> "new"]
         /\ results_list = [i \in 1..n |-> <<>>]
         /\ contexts = [i \in 1..n |-> [transport |-> "none", session |-> "none"]]
    /\ semaphore = [value |-> DiscoveryConcurrency, waiters |-> <<>>]
    /\ results = NotReturned

DiscoveryInputs == DiscoveryInputsWith(TRUE)

\* the tasks i..n run, in order, each up to its first suspension
RECURSIVE StartFrom(_, _, _, _)
StartFrom(i, n, sem, d) ==
    IF i > n THEN [sem |-> sem, discover |-> d]
    ELSE LET a == acquire(sem, i)
         IN  StartFrom(i + 1, n, a.sem, [d EXCEPT ![i] = a.pc])

\* lines 339-341: asyncio.gather starts every task
gather ==
    /\ configs # {}
    /\ \A i \in configs : discover[i] = "new"
    /\ LET started == StartFrom(1, Cardinality(configs), semaphore, discover)
       IN  /\ semaphore' = started.sem
           /\ discover' = started.discover
    /\ UNCHANGED <<configs, behaviour, results_list, results, contexts>>

\* the task of server i ends: its record, then the semaphore's __aexit__
DiscoverOneDone(i) ==
    /\ discover[i] = "running"
    /\ results_list' = [results_list EXCEPT ![i] = _discover_one(i, behaviour[i])]
    /\ semaphore' = release(semaphore)
    /\ discover' = IF Len(semaphore.waiters) > 0
                   THEN [discover EXCEPT ![i] = "done", ![Head(semaphore.waiters)] = "running"]
                   ELSE [discover EXCEPT ![i] = "done"]
    /\ contexts' = [contexts EXCEPT ![i] = async_with(behaviour[i])]
    /\ UNCHANGED <<configs, behaviour, results>>

\* the failed servers left out of the dict
dict_of_successes(pairs) ==
    LET keys == {pairs[i][1] : i \in {j \in DOMAIN pairs : pairs[j][2].error = Null}}
    IN  [k \in keys |-> pairs[CHOOSE i \in DOMAIN pairs : pairs[i][1] = k][2]]

\* dict(results_list)
dict(pairs) ==
    LET keys == {pairs[i][1] : i \in DOMAIN pairs}
    IN  [k \in keys |-> pairs[CHOOSE i \in DOMAIN pairs : pairs[i][1] = k][2]]

\* line 341 resumed and line 343
discover_all_servers ==
    /\ ~ results.returned
    /\ \A i \in configs : discover[i] = "done"
    /\ results' = [returned |-> TRUE, dict |-> dict(results_list)]
    /\ UNCHANGED <<configs, behaviour, semaphore, discover, results_list, contexts>>

InitDiscovery == __init__ /\ DiscoveryInputs /\ NoResolve /\ NoCoordinator

NextDiscovery ==
    \/ gather /\ UNCHANGED <<vars, rvars, cvars>>
    \/ (\E i \in configs : DiscoverOneDone(i)) /\ UNCHANGED <<vars, rvars, cvars>>
    \/ discover_all_servers /\ UNCHANGED <<vars, rvars, cvars>>

SpecDiscovery == InitDiscovery /\ [][NextDiscovery]_dvars

\* The event loop runs every task that is ready, and every await of an
\* introspection returns, raises or is cut by one of the two timeouts.
InitFairDiscovery == __init__ /\ DiscoveryInputsWith(FALSE) /\ NoResolve /\ NoCoordinator

FairDiscovery == InitFairDiscovery /\ [][NextDiscovery]_dvars /\ WF_dvars(NextDiscovery)

\* ------------------------------------------------------------------ _resolve_command
\* McpClientManager._connect_stdio prepares the subprocess environment and
\* resolves the server's command (client.py, lines 241-247).  A PATH is the
\* sequence of its directories; the empty string is the empty sequence.  A
\* directory returned by which stands for the absolute path of the command in
\* that directory.

Command == "mytool"     \* config.command, a bare name

UnixCommonPaths ==
    <<"~/.pyenv/shims", "~/.cargo/bin", "~/.local/bin", "/usr/local/bin",
      "/usr/bin", "/bin", "/opt/homebrew/bin">>

\* version_dir / "bin"
NvmBin(name) ==
    CASE name = "v18" -> "~/.nvm/versions/node/v18/bin"
      [] name = "v20" -> "~/.nvm/versions/node/v20/bin"
      [] OTHER -> "~/.nvm/versions/node/alias/bin"

\* lines 215-217: the bin directory of every entry that is a directory
RECURSIVE NvmBins(_)
NvmBins(entries) ==
    IF entries = <<>> THEN <<>>
    ELSE (IF Head(entries).is_dir THEN <<NvmBin(Head(entries).name)>> ELSE <<>>)
         \o NvmBins(Tail(entries))

WinCommonPaths(environ) ==
    (IF environ.APPDATA THEN <<"%APPDATA%/npm">> ELSE <<>>)
    \o (IF environ.LOCALAPPDATA
        THEN <<"%LOCALAPPDATA%/Programs/Python/Scripts", "%LOCALAPPDATA%/uv">>
        ELSE <<>>)
    \o <<"~/.cargo/bin">>

\* lines 181-217
common_paths ==
    IF sys_platform = "win32" THEN WinCommonPaths(os_environ)
    ELSE UnixCommonPaths
         \o (IF nvm_versions.exists THEN NvmBins(nvm_versions.entries) ELSE <<>>)

Range(seq) == {seq[i] : i \in 1..Len(seq)}

\* shutil.which(command, path=path): the first directory of path that holds
\* the command as an executable file; None for an empty path or when none does
which(holders, path) ==
    IF \E i \in 1..Len(path) : path[i] \in holders
    THEN path[CHOOSE i \in 1..Len(path) :
                  path[i] \in holders /\ \A j \in 1..(i - 1) : path[j] \notin holders]
    ELSE Null

\* dict.get("PATH", default)
get(d, default) == IF d.has THEN d.dirs ELSE default

\* steps 1 and 3 only: no search of the common paths
resolve_without_search(holders, e) ==
    LET first == which(holders, get(e, get(os_environ.PATH, <<>>)))
    IN  [resolved |-> IF first # Null THEN first ELSE Command, env |-> e]

\* the searched directories after the previous entries
resolve_appending(holders, e) ==
    LET first == which(holders, get(e, get(os_environ.PATH, <<>>)))
        second == which(holders, common_paths)
    IN  IF first # Null THEN [resolved |-> first, env |-> e]
        ELSE [resolved |-> IF second # Null THEN second ELSE Command,
              env |-> Path(get(e, <<>>) \o common_paths)]

\* McpClientManager._resolve_command(command, env): what it returns and the
\* env it leaves
_resolve_command(holders, e) ==
    LET path_env == get(e, get(os_environ.PATH, <<>>))
        first == which(holders, path_env)
        search_path == common_paths
        current_path == get(e, <<>>)
        second == which(holders, search_path)
    IN  IF first # Null
        THEN [resolved |-> first, env |-> e]
        ELSE [resolved |-> IF second # Null THEN second ELSE Command,
              env |-> Path(IF current_path # <<>>
                           THEN search_path \o current_path
                           ELSE search_path)]

\* the inputs of the runs
PathDirs == {"/opt/custom/bin", "/usr/bin"}

Paths == {NoPath} \cup {Path(ds) : ds \in UNION {[1..n -> PathDirs] : n \in 0..MaxPath}}

NvmEntries ==
    {[name |-> "v18", is_dir |-> TRUE], [name |-> "v20", is_dir |-> TRUE],
     [name |-> "alias", is_dir |-> FALSE]}

\* the listings iterdir() can yield: the entries present, in any order
NvmListings ==
    {es \in UNION {[1..n -> NvmEntries] : n \in 0..Cardinality(NvmEntries)} :
        \A i, j \in 1..Len(es) : i # j => es[i] # es[j]}

ResolveInputs ==
    /\ sys_platform \in {"linux", "win32"}
    /\ os_environ \in [PATH : Paths, APPDATA : BOOLEAN, LOCALAPPDATA : BOOLEAN]
    /\ sys_platform = "linux" => ~ os_environ.APPDATA /\ ~ os_environ.LOCALAPPDATA
    /\ nvm_versions \in
         {[exists |-> FALSE, entries |-> <<>>]}
         \cup {[exists |-> TRUE, entries |-> es] : es \in NvmListings}
    /\ sys_platform = "win32" => ~ nvm_versions.exists
    /\ executables \in
         {h \in SUBSET (Range(common_paths) \cup PathDirs) : Cardinality(h) <= MaxHolders}
    /\ server_env \in Paths
    /\ env = NoPath
    /\ env_before = NoPath
    /\ resolved = Null
    /\ rpc = "prepare"

\* lines 241-244: env = dict(os.environ); env.update(config.env)
ConnectStdioPrepare ==
    /\ rpc = "prepare"
    /\ env' = IF server_env.has THEN server_env ELSE os_environ.PATH
    /\ rpc' = "resolve"
    /\ UNCHANGED <<sys_platform, os_environ, nvm_versions, executables, server_env,
                   env_before, resolved>>

\* line 247: command = self._resolve_command(config.command, env)
ConnectStdioResolve ==
    /\ rpc = "resolve"
    /\ LET r == _resolve_command(executables, env)
       IN  /\ resolved' = r.resolved
           /\ env' = r.env
    /\ env_before' = env
    /\ rpc' = "done"
    /\ UNCHANGED <<sys_platform, os_environ, nvm_versions, executables, server_env>>

InitResolve == __init__ /\ NoDiscovery /\ ResolveInputs /\ NoCoordinator

NextResolve ==
    \/ ConnectStdioPrepare /\ UNCHANGED <<vars, dvars, cvars>>
    \/ ConnectStdioResolve /\ UNCHANGED <<vars, dvars, cvars>>

SpecResolve == InitResolve /\ [][NextResolve]_rvars

\* ------------------------------------------------------------------ CoordinatorClient
\* coordinator_client.py: call_tool coroutines on one CoordinatorClient,
\* interleaved at their await points.  A connection attempt is identified by
\* its position in cc_launched; the session of an attempt has the same id.

Callers == 1..MaxCallers

CoordinatorConfigs == {"a", "b"}                    \* self.configs
ServerNames == CoordinatorConfigs \cup {"ghost"}    \* the names callers ask for

\* a server name without an asyncio.Lock in self._connection_locks
NoLock == [created |-> FALSE, holder |-> None, waiters |-> <<>>]

\* waited: the coroutine had to queue for the lock (a local, gone when it ends)
IdleCall == [pc |-> "idle", srv |-> Null, tid |-> None, got |-> None, res |-> Null,
             waited |-> FALSE]

\* close() not called yet; items is list(self.sessions.items()), k the item of the loop
NotClosing == [pc |-> "idle", items |-> <<>>, k |-> 0]

\* CoordinatorClient.__init__, lines 43-46
CoordinatorInit ==
    /\ cc_sessions = [s \in ServerNames |-> None]
    /\ cc_stdio_contexts = [s \in ServerNames |-> None]
    /\ cc_connection_locks = [s \in ServerNames |-> NoLock]
    /\ cc_launched = <<>>
    /\ cc_task = [t \in Callers |-> IdleCall]
    /\ cc_close = NotClosing

\* a lock that never makes a caller wait
LockAlwaysFree(lk) == TRUE

\* asyncio.Lock.acquire returns at once: not locked and nobody waiting
LockFree(lk) == lk.holder = None /\ lk.waiters = <<>>

\* a lock that stays with its holder
KeepLock(lk) == lk

\* asyncio.Lock.release: the first waiter, if any, is woken and gets the lock
Release(lk) ==
    IF lk.waiters = <<>> THEN [lk EXCEPT !.holder = None]
    ELSE [lk EXCEPT !.holder = Head(lk.waiters), !.waiters = Tail(lk.waiters)]

\* an await returns or raises
CallOutcomes == {"ok", "error"}

\* the exception leaves call_tool and the lock stays held
RaisesHoldingLock(t, res) ==
    /\ cc_task' = [cc_task EXCEPT ![t].pc = "done", ![t].res = res, ![t].tid = None,
                                  ![t].waited = FALSE]
    /\ UNCHANGED cc_connection_locks

\* the exception of _ensure_connected leaves call_tool (line 163 is outside its try)
EnsureConnectedRaises(t, res) ==
    /\ cc_task' = [cc_task EXCEPT ![t].pc = "done", ![t].res = res, ![t].tid = None,
                                  ![t].waited = FALSE]
    /\ cc_connection_locks' =
         [cc_connection_locks EXCEPT ![cc_task[t].srv] = Release(@)]

\* lines 98-132 and 163-167, run by the holder of the lock up to its next await
InLock(t, r, lk) ==
    /\ IF cc_sessions[r.srv] # None
       THEN /\ cc_task' = [cc_task EXCEPT ![t] = [r EXCEPT !.pc = "call",
                                                          !.got = cc_sessions[r.srv]]]
            /\ cc_connection_locks' = [cc_connection_locks EXCEPT ![r.srv] = Release(lk)]
       ELSE IF r.srv \notin CoordinatorConfigs
       THEN /\ cc_task' = [cc_task EXCEPT ![t] = [r EXCEPT !.pc = "done",
                                                          !.res = "ValueError",
                                                          !.waited = FALSE]]
            /\ cc_connection_locks' = [cc_connection_locks EXCEPT ![r.srv] = Release(lk)]
       ELSE /\ cc_task' = [cc_task EXCEPT ![t] = [r EXCEPT !.pc = "stdio_enter"]]
            /\ cc_connection_locks' = [cc_connection_locks EXCEPT ![r.srv] = lk]
    /\ UNCHANGED <<cc_sessions, cc_stdio_contexts, cc_launched>>

\* CoordinatorClient.call_tool(server_name, ...) up to its first suspension: lines 160-163, 94-97
coordinator_call_tool(t, s) ==
    /\ cc_task[t].pc = "idle"
    /\ \A u \in Callers : u < t => cc_task[u].pc # "idle"    \* callers numbered as they start
    /\ LET lk == [cc_connection_locks[s] EXCEPT !.created = TRUE]
           r == [cc_task[t] EXCEPT !.srv = s]
       IN  IF LockFree(lk)
           THEN InLock(t, r, [lk EXCEPT !.holder = t])
           ELSE /\ cc_task' = [cc_task EXCEPT ![t] = [r EXCEPT !.pc = "lock",
                                                              !.waited = TRUE]]
                /\ cc_connection_locks' =
                     [cc_connection_locks EXCEPT ![s] = [lk EXCEPT !.waiters = Append(@, t)]]
                /\ UNCHANGED <<cc_sessions, cc_stdio_contexts, cc_launched>>

\* line 97 resumed: the waiter was given the lock
LockAcquired(t) ==
    /\ cc_task[t].pc = "lock"
    /\ cc_connection_locks[cc_task[t].srv].holder = t
    /\ InLock(t, cc_task[t], cc_connection_locks[cc_task[t].srv])

\* line 132 resumed, lines 133-137
StdioEntered(t, o) ==
    /\ cc_task[t].pc = "stdio_enter"
    /\ LET s == cc_task[t].srv
           id == Len(cc_launched) + 1
       IN  IF o = "ok"
           THEN /\ cc_launched' = Append(cc_launched,
                     [srv |-> s, transport |-> "open", session |-> "none",
                      handshake |-> "none", stored |-> 0])
                /\ cc_stdio_contexts' = [cc_stdio_contexts EXCEPT ![s] = id]
                /\ cc_task' = [cc_task EXCEPT ![t].pc = "session_enter", ![t].tid = id]
                /\ UNCHANGED <<cc_sessions, cc_connection_locks>>
           ELSE /\ cc_launched' = Append(cc_launched,
                     [srv |-> s, transport |-> "failed", session |-> "none",
                      handshake |-> "none", stored |-> 0])
                /\ EnsureConnectedRaises(t, "ConnectError")
                /\ UNCHANGED <<cc_sessions, cc_stdio_contexts>>

\* line 137 resumed, line 138
SessionEntered(t, o) ==
    /\ cc_task[t].pc = "session_enter"
    /\ IF o = "ok"
       THEN /\ cc_launched' = [cc_launched EXCEPT ![cc_task[t].tid].session = "open",
                                                  ![cc_task[t].tid].handshake = "sent"]
            /\ cc_task' = [cc_task EXCEPT ![t].pc = "initialize"]
            /\ UNCHANGED cc_connection_locks
       ELSE /\ cc_launched' = [cc_launched EXCEPT ![cc_task[t].tid].session = "failed"]
            /\ EnsureConnectedRaises(t, "ConnectError")
    /\ UNCHANGED <<cc_sessions, cc_stdio_contexts>>

\* the sessions put into self.sessions so far
StoredSoFar == Cardinality({i \in 1..Len(cc_launched) : cc_launched[i].stored > 0})

\* line 138 resumed, lines 140-141 and 163-167
Initialized(t, o) ==
    /\ cc_task[t].pc = "initialize"
    /\ IF o = "ok"
       THEN /\ cc_launched' = [cc_launched EXCEPT ![cc_task[t].tid].handshake = "ok",
                                                  ![cc_task[t].tid].stored = StoredSoFar + 1]
            /\ cc_sessions' = [cc_sessions EXCEPT ![cc_task[t].srv] = cc_task[t].tid]
            /\ cc_task' = [cc_task EXCEPT ![t].pc = "call", ![t].got = cc_task[t].tid,
                                          ![t].tid = None]
            /\ cc_connection_locks' =
                 [cc_connection_locks EXCEPT ![cc_task[t].srv] = Release(@)]
       ELSE /\ cc_launched' = [cc_launched EXCEPT ![cc_task[t].tid].handshake = "failed"]
            /\ EnsureConnectedRaises(t, "ConnectError")
            /\ UNCHANGED cc_sessions
    /\ UNCHANGED cc_stdio_contexts

\* line 167 resumed, lines 168-170
ToolCalled(t, o) ==
    /\ cc_task[t].pc = "call"
    /\ cc_task' = [cc_task EXCEPT ![t].pc = "done", ![t].waited = FALSE,
                                  ![t].res = IF o = "ok" THEN "content" ELSE "RuntimeError"]
    /\ UNCHANGED <<cc_sessions, cc_stdio_contexts, cc_connection_locks, cc_launched>>

\* ------------------------------------------------------------------ CoordinatorClient.close
\* list(self.sessions.items()): the servers with a session and that session,
\* in the order in which the sessions were stored
Items ==
    LET keys == {s \in ServerNames : cc_sessions[s] # None}
    IN  CHOOSE q \in [1..Cardinality(keys) -> keys \X (1..Len(cc_launched))] :
            /\ \A s \in keys : \E k \in DOMAIN q : q[k] = <<s, cc_sessions[s]>>
            /\ \A j, k \in DOMAIN q :
                   j < k => cc_launched[q[j][2]].stored < cc_launched[q[k][2]].stored

\* line 180: if server_name in self._stdio_contexts
HasStdioContext(s) == cc_stdio_contexts[s] # None

\* lines 175-178 for the k-th item, or lines 186-187 when no item is left
CloseItem(items, k) ==
    IF k > Len(items)
    THEN /\ cc_sessions' = [s \in ServerNames |-> None]
         /\ cc_stdio_contexts' = [s \in ServerNames |-> None]
         /\ cc_close' = [pc |-> "done", items |-> items, k |-> k]
         /\ UNCHANGED cc_launched
    ELSE /\ cc_launched' = [cc_launched EXCEPT ![items[k][2]].session = "closed"]
         /\ cc_close' = [pc |-> "session_exit", items |-> items, k |-> k]
         /\ UNCHANGED <<cc_sessions, cc_stdio_contexts>>

\* close() up to its first suspension
close ==
    /\ cc_close.pc = "idle"
    /\ CloseItem(Items, 1)
    /\ UNCHANGED <<cc_connection_locks, cc_task>>

\* line 178 resumed: lines 180-182, or the handler of line 183 and the next item
CloseAfterSession(o) ==
    /\ cc_close.pc = "session_exit"
    /\ LET s == cc_close.items[cc_close.k][1]
       IN  IF o = "ok" /\ HasStdioContext(s)
           THEN /\ cc_launched' = [cc_launched EXCEPT ![cc_stdio_contexts[s]].transport = "closed"]
                /\ cc_close' = [cc_close EXCEPT !.pc = "stdio_exit"]
                /\ UNCHANGED <<cc_sessions, cc_stdio_contexts>>
           ELSE CloseItem(cc_close.items, cc_close.k + 1)
    /\ UNCHANGED <<cc_connection_locks, cc_task>>

\* line 182 resumed: the next item
CloseAfterStdio(o) ==
    /\ cc_close.pc = "stdio_exit"
    /\ CloseItem(cc_close.items, cc_close.k + 1)
    /\ UNCHANGED <<cc_connection_locks, cc_task>>

InitCoordinator == __init__ /\ NoDiscovery /\ NoResolve /\ CoordinatorInit

NextCoordinator ==
    \/ (\E t \in Callers, s \in ServerNames : coordinator_call_tool(t, s)) /\ UNCHANGED <<vars, dvars, rvars, cc_close>>
    \/ (\E t \in Callers : LockAcquired(t)) /\ UNCHANGED <<vars, dvars, rvars, cc_close>>
    \/ (\E t \in Callers, o \in CallOutcomes : StdioEntered(t, o)) /\ UNCHANGED <<vars, dvars, rvars, cc_close>>
    \/ (\E t \in Callers, o \in CallOutcomes : SessionEntered(t, o)) /\ UNCHANGED <<vars, dvars, rvars, cc_close>>
    \/ (\E t \in Callers, o \in CallOutcomes : Initialized(t, o)) /\ UNCHANGED <<vars, dvars, rvars, cc_close>>
    \/ (\E t \in Callers, o \in CallOutcomes : ToolCalled(t, o)) /\ UNCHANGED <<vars, dvars, rvars, cc_close>>
    \/ close /\ UNCHANGED <<vars, dvars, rvars>>
    \/ (\E o \in CallOutcomes : CloseAfterSession(o)) /\ UNCHANGED <<vars, dvars, rvars>>
    \/ (\E o \in CallOutcomes : CloseAfterStdio(o)) /\ UNCHANGED <<vars, dvars, rvars>>

SpecCoordinator == InitCoordinator /\ [][NextCoordinator]_cvars

\* ------------------------------------------------------------------ vocabulary of the claims
ConnectPcs == {"open_transport", "open_session", "handshake"}

\* task t starts operation op in this step
Starts(t, op) == task[t].pc = "idle" /\ task'[t].pc # "idle" /\ task'[t].op = op

\* task t's operation raised e in the step that started it
FailsFast(t, e) == task'[t].pc = "done" /\ task'[t].res = e

\* the transport objects created for server s (its connection attempts)
Attempts(s) == {i \in Ids : idServer[i] = s}

\* the transports / sessions of server s opened and not yet closed
Live(s) == {i \in Ids : idServer[i] = s /\ (transports[i] = "open" \/ clientSessions[i] = "open")}

Configured(s) == config # Null /\ s \in DOMAIN McpConfig(config)

\* C1: two call_tool invocations racing on the same server without a session
\* make one connection attempt between them: no two call_tool tasks are in
\* connection establishment for the same server at the same time (each such
\* task holds a transport object of its own), so the later one can only find
\* the session of the earlier one.
C1_OneConnectionAttempt ==
    \A a, b \in Tasks :
        ~ ( /\ a # b
            /\ task[a].op = "call_tool" /\ task[b].op = "call_tool"
            /\ task[a].srv = task[b].srv
            /\ task[a].pc \in ConnectPcs
            /\ task[b].pc \in ConnectPcs )

\* C2: at most one transport / session is open per server name, recorded in
\* the manager's maps or not.
C2_AtMostOneLiveSession == \A s \in Servers : Cardinality(Live(s)) <= 1

\* C3: the manager is CONNECTED if and only if the session map has an entry.
C3_ConnectedIffSession == (state = CONNECTED) <=> (Keys(sessions) # {})

\* C4: the state only moves forward in UNINITIALIZED < INITIALIZED < CONNECTED,
\* except for the reset to UNINITIALIZED made by cleanup().
C4_ForwardOnly ==
    [][StateIndex(state') < StateIndex(state)
         => /\ state' = UNINITIALIZED
            /\ \E t \in Tasks : task'[t].op = "cleanup" /\ task'[t].pc = "done"
                                /\ task[t].pc # "done"]_vars

\* C5: call_tool and list_tools started while the manager is UNINITIALIZED
\* raise in that same step (before any await, so before any connection
\* attempt) and change neither the state nor any map nor any transport.
C5_UninitializedFailsFast ==
    [][\A t \in Tasks :
         (state = UNINITIALIZED /\ (Starts(t, "call_tool") \/ Starts(t, "list_tools")))
         => /\ FailsFast(t, "RuntimeError:state")
            /\ UNCHANGED <<state, config, maps, world>>]_vars

\* a call_tool or list_tools raised on an uninitialized manager that still has
\* its configuration (after cleanup)
C5_Witness ==
    \E t \in Tasks : /\ task[t].op \in {"call_tool", "list_tools"}
                     /\ task[t].res = "RuntimeError:state"
                     /\ config # Null

\* C6: initialize() opens no connection and touches no map; on a fresh manager
\* it ends INITIALIZED with an empty session map; an entry enters the session
\* map only in a step of a call_tool or list_tools task for that server.
C6_InitializeIsLazy ==
    [][/\ \A t \in Tasks : Starts(t, "initialize")
            => /\ UNCHANGED <<maps, world>>
               /\ (config = Null /\ task'[t].res = "ok")
                    => (state' = INITIALIZED /\ sessions' = EmptyMap)
       /\ \A s \in Servers : (sessions'[s] # None /\ sessions'[s] # sessions[s])
            => \E t \in Tasks : /\ task[t].op \in {"call_tool", "list_tools"}
                                /\ task[t].srv = s
                                /\ task[t].pc # "idle"]_vars

\* a fresh manager right after its first initialize()
C6_Witness ==
    /\ \E t \in Tasks : task[t].op = "initialize" /\ task[t].res = "ok"
    /\ nextId = 1
    /\ state = INITIALIZED
    /\ sessions = EmptyMap

\* C7: an initialize() that locates no configuration (no explicit path, no
\* default file) raises FileNotFoundError and leaves the state unchanged.
C7_NoConfigFails ==
    [][\A t \in Tasks :
         (Starts(t, "initialize") /\ task'[t].srv \in {"nothing", "cwd"})
         => (task'[t].res = "FileNotFoundError" /\ state' = state)]_vars

\* C8: call_tool and list_tools on an initialized manager, for a server name
\* that the loaded configuration does not have, raise server-not-found at
\* once, with no connection attempt and no new session map entry.
C8_UnknownServerFails ==
    [][\A t \in Tasks :
         ( /\ state # UNINITIALIZED
           /\ Starts(t, "call_tool") \/ Starts(t, "list_tools")
           /\ ~ Configured(task'[t].srv) )
         => /\ FailsFast(t, "ServerNotFound")
            /\ UNCHANGED <<sessions, world>>]_vars

\* C9: every key of the session map is a server of the loaded configuration.
C9_SessionsAreConfigured == \A s \in Keys(sessions) : Configured(s)

\* C10: call_tool on an initialized manager, for a server whose configuration
\* marks it disabled, raises server-disabled at once: no transport object is
\* created and no map changes.
C10_DisabledServerRefused ==
    [][\A t \in Tasks :
         ( /\ state # UNINITIALIZED
           /\ Starts(t, "call_tool")
           /\ Configured(task'[t].srv)
           /\ McpConfig(config)[task'[t].srv].disabled )
         => /\ FailsFast(t, "ServerDisabled")
            /\ UNCHANGED <<state, maps, world>>]_vars

\* a call_tool refused for a disabled server while another server is connected
C10_Witness ==
    /\ \E t \in Tasks : task[t].op = "call_tool" /\ task[t].res = "ServerDisabled"
    /\ Keys(sessions) # {}

\* C11: list_tools on an initialized manager, for a server whose configuration
\* marks it disabled, raises server-disabled at once and creates no transport
\* object, so that no session of a disabled server enters the session map.
C11_DisabledServerNotListed ==
    [][\A t \in Tasks :
         ( /\ state # UNINITIALIZED
           /\ Starts(t, "list_tools")
           /\ Configured(task'[t].srv)
           /\ McpConfig(config)[task'[t].srv].disabled )
         => /\ FailsFast(t, "ServerDisabled")
            /\ UNCHANGED <<sessions, world>>]_vars

C13_SecondListFromCache ==
    [][\A t \in Tasks :
         ( /\ state # UNINITIALIZED
           /\ Starts(t, "list_tools")
           /\ tools_cache[task'[t].srv] # None )
         => /\ FailsFast(t, "ok")
            /\ task'[t].cached
            /\ UNCHANGED <<state, maps, world>>]_vars

\* a list_tools answered from the cache that the session in the session map
\* filled
C13_Witness ==
    \E t \in Tasks : /\ task[t].op = "list_tools"
                     /\ task[t].cached
                     /\ sessions[task[t].srv] # None
                     /\ tools_cache[task[t].srv] = sessions[task[t].srv]

\* C14: a tool cache entry is written only in a step at whose start the
\* server has a session in the session map, and that session is open, whatever
\* cleanup() and other connection attempts do in between.
C14_CacheWrittenUnderSession ==
    [][\A s \in Servers :
         (tools_cache'[s] # None /\ tools_cache'[s] # tools_cache[s])
         => (sessions[s] # None /\ Usable(sessions[s]))]_vars

\* C15: a tool cache entry, once written, is dropped or replaced only by the
\* step in which a cleanup() finishes: no step of call_tool, list_tools (a
\* failed connection attempt and its rollback included) or initialize changes
\* an entry that is there.
C15_CacheKeptUntilCleanup ==
    [][\A s \in Servers :
         (tools_cache[s] # None /\ tools_cache'[s] # tools_cache[s])
         => \E t \in Tasks : /\ task[t].op = "cleanup" /\ task[t].pc # "done"
                             /\ task'[t].pc = "done"]_vars

\* C16: a connection attempt cancelled by the connect timeout makes the call
\* that triggered it raise the timeout error, and in the step in which that
\* error reaches the caller the session map has no entry for the server.
C16_ConnectTimeoutSurfaces ==
    [][\A t \in Tasks :
         /\ (\/ ConnectTransport(t, "timeout")
             \/ ConnectSession(t, "timeout")
             \/ ConnectHandshake(t, "timeout"))
            => \/ task'[t].pc # "done" /\ task'[t].err = "TimeoutError"
               \/ FailsFast(t, "TimeoutError") /\ sessions'[task[t].srv] = None
         /\ (task[t].err = "TimeoutError" /\ task'[t].pc = "done")
            => (task'[t].res = "TimeoutError" /\ sessions'[task[t].srv] = None)]_vars

\* the errors with which a connection attempt ends (the KeyError of its
\* rollback included)
ConnectFailures ==
    {"UnsupportedTransport", "MissingCommand", "ConnectError", "HandshakeFailure",
     "TimeoutError", "KeyError"}

\* C17: when the error of a failed connection attempt reaches the caller, the
\* transport and the session the attempt opened are closed and none of the
\* manager's maps (session contexts, transport contexts, read and write
\* streams, sessions) has an entry for the server.
C17_FailedAttemptRolledBack ==
    [][\A t \in Tasks :
         ( /\ task[t].pc # "done" /\ task'[t].pc = "done"
           /\ task'[t].op \in {"call_tool", "list_tools"}
           /\ task'[t].res \in ConnectFailures )
         => /\ task[t].sid # None
                => /\ transports'[task[t].sid] # "open"
                   /\ clientSessions'[task[t].sid] # "open"
            /\ session_contexts'[task'[t].srv] = None
            /\ stdio_contexts'[task'[t].srv] = None
            /\ read_streams'[task'[t].srv] = None
            /\ write_streams'[task'[t].srv] = None
            /\ sessions'[task'[t].srv] = None]_vars

\* the errors with which a call on an established session ends
CallFailures == {"ReadTimeout", "UnderlyingError"}

\* C18: no step of a call_tool or list_tools for server s, hence no failed
\* connection attempt, rollback or failed call for s, changes the session,
\* the contexts, the streams or the cached tool list of another server, or
\* the transport and session objects of another server.
C18_OtherServersUntouched ==
    [][\A t \in Tasks :
         (task'[t] # task[t] /\ task'[t].op \in {"call_tool", "list_tools"})
         => /\ \A s \in Servers \ {task'[t].srv} :
                 /\ sessions'[s] = sessions[s]
                 /\ tools_cache'[s] = tools_cache[s]
                 /\ session_contexts'[s] = session_contexts[s]
                 /\ stdio_contexts'[s] = stdio_contexts[s]
                 /\ read_streams'[s] = read_streams[s]
                 /\ write_streams'[s] = write_streams[s]
            /\ \A i \in Ids : idServer'[i] # task'[t].srv
                 => /\ transports'[i] = transports[i]
                    /\ clientSessions'[i] = clientSessions[i]]_vars

\* a connection attempt or a call for one server has failed while another
\* server has its session open and its tool list cached
C18_Witness ==
    \E t \in Tasks, s \in Servers :
        /\ task[t].pc = "done"
        /\ task[t].op \in {"call_tool", "list_tools"}
        /\ task[t].res \in ConnectFailures \cup CallFailures
        /\ s # task[t].srv
        /\ sessions[s] # None /\ Usable(sessions[s])
        /\ tools_cache[s] # None

\* C19: a tool call cancelled by the read timeout raises the read-timeout
\* error and nothing else happens: the session map (the timed-out server's
\* own entry included), the contexts, the manager state and every transport
\* and session object stay as they were.
C19_ReadTimeoutCancelsOnlyTheCall ==
    [][\A t \in Tasks :
         /\ (task[t].pc = "call" /\ task'[t].pc = "done" /\ task'[t].res = "ReadTimeout")
            => UNCHANGED <<state, maps, world>>
         /\ SessionCallTool(t, "timeout")
            => (task'[t].pc = "done" /\ task'[t].res = "ReadTimeout")]_vars

\* a call on the session in the session map has timed out, the session is
\* still there and open, and another server has a session too
C19_Witness ==
    \E t \in Tasks, s \in Servers :
        /\ task[t].pc = "done" /\ task[t].res = "ReadTimeout"
        /\ sessions[task[t].srv] # None /\ Usable(sessions[task[t].srv])
        /\ s # task[t].srv /\ sessions[s] # None

\* C20: a tool call whose underlying session call fails for a reason other
\* than the read timeout reaches the caller as the one domain error for a
\* failed invocation (InvocationFailure, naming server and tool, the original
\* failure its cause), never as the error the session raised.
C20_FailureWrapped ==
    [][\A t \in Tasks :
         SessionCallTool(t, "error")
         => (task'[t].pc = "done" /\ task'[t].res = "InvocationFailure")]_vars

\* all six maps of the manager are empty
AllMapsEmpty ==
    /\ sessions = EmptyMap
    /\ tools_cache = EmptyMap
    /\ session_contexts = EmptyMap
    /\ stdio_contexts = EmptyMap
    /\ read_streams = EmptyMap
    /\ write_streams = EmptyMap

\* C21: in the step in which a cleanup() returns, whatever the manager held
\* before, the state becomes UNINITIALIZED and the session map, the tool cache
\* and the context and stream maps become empty; a cleanup() started on the
\* manager so cleaned returns at once (it awaits nothing and raises nothing)
\* and changes nothing.
C21_CleanupResetsAndIsIdempotent ==
    [][\A t \in Tasks :
         /\ ( /\ task[t].pc # "done" /\ task'[t].pc = "done"
              /\ task'[t].op = "cleanup" /\ task'[t].res = "ok" )
            => (state' = UNINITIALIZED /\ AllMapsEmpty')
         /\ (Starts(t, "cleanup") /\ state = UNINITIALIZED /\ AllMapsEmpty)
            => /\ FailsFast(t, "ok")
               /\ UNCHANGED <<state, config, maps, world>>]_vars

\* a cleanup() has returned on a manager that had opened a transport and a
\* session: both are closed and everything is cleared
C21_Witness ==
    /\ \E t \in Tasks : task[t].op = "cleanup" /\ task[t].pc = "done" /\ task[t].res = "ok"
    /\ ops = MaxOps
    /\ \E i \in Ids : clientSessions[i] = "closed" /\ transports[i] = "closed"
    /\ state = UNINITIALIZED /\ AllMapsEmpty

\* C22: whatever the closes awaited by cleanup() do (return, raise an ordinary
\* error, raise a cancel scope error, raise CancelledError), cleanup() raises
\* nothing and ends with the state UNINITIALIZED and all maps empty.
C22_CleanupNeverRaises ==
    [][\A t \in Tasks :
         (task[t].op = "cleanup" /\ task[t].pc # "done" /\ task'[t].pc = "done")
         => (task'[t].res = "ok" /\ state' = UNINITIALIZED /\ AllMapsEmpty')]_vars

\* ------------------------------------------------------------------ discovery claims
\* the discovery of a server with behaviour b throws or times out
DiscoveryFails(b) == \E k \in DOMAIN Awaits : Fatal(b, k)

\* the record of a finished server
RecordOf(i) == results_list[i][2]

\* C23: whatever servers are configured and whatever each of them does, the
\* dict discover_all_servers returns has exactly the configured names as its
\* keys, each with the record made for that name.
C23_OneRecordPerServer ==
    results.returned
    => /\ DOMAIN results.dict = configs
       /\ \A k \in configs : results.dict[k] = RecordOf(k) /\ results.dict[k].name = k

\* discover_all_servers has returned for two servers or more, one failed and
\* one healthy among them
C23_Witness ==
    /\ results.returned
    /\ \E i, j \in configs : /\ DiscoveryFails(behaviour[i])
                             /\ ~ DiscoveryFails(behaviour[j])
                             /\ i \in DOMAIN results.dict /\ j \in DOMAIN results.dict

\* C24: a server's record is an error record exactly when that server's own
\* discovery threw or timed out, in every state and in the dict returned: a
\* failing server's siblings run to their own records, and a step of one
\* server's task changes no other server's record.
C24_FailureIsolated ==
    [][/\ \A i \in configs :
            discover'[i] = "done"
            => ((results_list'[i][2].error # Null) <=> DiscoveryFails(behaviour[i]))
       /\ \A i \in configs :
            results_list'[i] # results_list[i]
            => \A j \in configs \ {i} : results_list'[j] = results_list[j]
       /\ results'.returned
            => \A i \in configs :
                 (results'.dict[i].error # Null) <=> DiscoveryFails(behaviour[i])]_dvars

\* five servers, one of which times out: the dict returned has four success
\* records and the error record of the timed-out server
C24_Witness ==
    /\ results.returned
    /\ configs = 1..5
    /\ \E i \in configs :
         /\ \E a \in AwaitNames : behaviour[i][a] = "outer_timeout"
         /\ results.dict[i].error # Null
         /\ \A j \in configs \ {i} : results.dict[j].error = Null

\* the tasks holding a slot of the semaphore
Running == {i \in configs : discover[i] = "running"}

\* C25: at most ten _discover_one tasks hold a slot at any moment, and a task
\* waits for a slot only while ten others hold one.
C25_AtMostTenRunning ==
    /\ Cardinality(Running) <= 10
    /\ (\E i \in configs : discover[i] = "waiting") => Cardinality(Running) = 10

\* ten discoveries are running and an eleventh server waits for a slot
C25_Witness ==
    /\ Cardinality(Running) = 10
    /\ \E i \in configs : discover[i] = "waiting"

\* C26: a server whose introspection is cut by the discovery timeout gets the
\* error record that says the discovery timed out.
C26_TimeoutRecord ==
    \A i \in configs :
        ( /\ discover[i] = "done"
          /\ \E a \in AwaitNames : behaviour[i][a] = "outer_timeout" )
        => RecordOf(i).error = "Discovery timed out"

\* C27: when every await but the two optional ones returns, and so the tool
\* list is fetched, the record is a success record with the tools, and each
\* optional part is the listed collection, or the empty one when its call
\* raised; when the tool-list call does not return, the record is an error
\* record.
C27_OptionalCallsOptional ==
    \A i \in configs :
        discover[i] = "done"
        => LET b == behaviour[i]
               r == RecordOf(i)
           IN  /\ ( /\ \A a \in AwaitNames \ Optional : b[a] = "ok"
                    /\ \A a \in Optional : b[a] \in {"ok", "error"} )
                  => /\ r.error = Null
                     /\ r.tools = "listed"
                     /\ r.resources = IF b["list_resources"] = "error" THEN "empty" ELSE "listed"
                     /\ r.prompts = IF b["list_prompts"] = "error" THEN "empty" ELSE "listed"
               /\ b["list_tools"] # "ok" => (r.error # Null /\ r.tools = "empty")

\* a server has its tools listed, its resource-list call raised and its
\* prompt-list call returned: a success record without resources
C27_Witness ==
    \E i \in configs :
        /\ discover[i] = "done"
        /\ behaviour[i]["list_tools"] = "ok"
        /\ behaviour[i]["list_resources"] = "error"
        /\ behaviour[i]["list_prompts"] = "ok"
        /\ RecordOf(i).error = Null
        /\ RecordOf(i).tools = "listed"
        /\ RecordOf(i).resources = "empty"
        /\ RecordOf(i).prompts = "listed"

\* ------------------------------------------------------------------ command resolution claims
\* the first lookup (line 176) found nothing, so the common paths were searched
Searched == which(executables, get(env_before, get(os_environ.PATH, <<>>))) = Null

\* C28: when the command is in no directory of the env's PATH and in exactly
\* one of the searched common directories (the bin directory of an installed
\* node version included), _resolve_command returns the path in that
\* directory and the env's PATH afterwards contains that directory.
C28_ResolvesFromCommonDirectory ==
    rpc = "done" =>
        \A d \in Range(common_paths) :
            (/\ Range(env_before.dirs) \cap executables = {}
             /\ Range(common_paths) \cap executables = {d})
            => (resolved = d /\ env.has /\ d \in Range(env.dirs))

C28_Witness ==
    /\ rpc = "done"
    /\ sys_platform = "linux"
    /\ executables = {NvmBin("v20")}
    /\ env_before = Path(<<"/usr/bin">>)
    /\ resolved = NvmBin("v20")
    /\ NvmBin("v20") \in Range(env.dirs)

\* C29: after a search of the common directories the env's PATH is the
\* previous entries in their order followed by the searched directories.
C29_SearchedDirectoriesAppended ==
    (rpc = "done" /\ Searched) =>
        (env.has /\ env.dirs = env_before.dirs \o common_paths)

\* ------------------------------------------------------------------ CoordinatorClient claims
\* the connection attempts launched for server s
Launched(s) == {i \in 1..Len(cc_launched) : cc_launched[i].srv = s}

AttemptFailed(i) ==
    \/ cc_launched[i].transport = "failed"
    \/ cc_launched[i].session = "failed"
    \/ cc_launched[i].handshake = "failed"

\* the callers between the launch of a transport for s and the end of its handshake
Connecting(s) ==
    {t \in Callers : cc_task[t].srv = s
                     /\ cc_task[t].pc \in {"stdio_enter", "session_enter", "initialize"}}

\* the callers whose _ensure_connected(s) has ended
PastEnsureConnected(s) ==
    {t \in Callers : cc_task[t].srv = s /\ cc_task[t].pc \in {"call", "done"}}

\* C30 as stated: whatever callers race on a configured server, one transport
\* is launched for it, one handshake run, and every caller whose
\* _ensure_connected ended holds the same session.
C30_ExactlyOneConnection ==
    \A s \in CoordinatorConfigs :
        /\ Cardinality(Launched(s)) <= 1
        /\ Cardinality({i \in Launched(s) : cc_launched[i].handshake # "none"}) <= 1
        /\ \A t \in PastEnsureConnected(s) :
               cc_task[t].got # None /\ cc_task[t].got = cc_sessions[s]

\* C30, amended: as long as close() has not been called, the callers racing
\* on a server are serialized by its lock:
\* at most one of them is connecting at any moment; at most one attempt
\* succeeds, it is the last one launched and every earlier one failed; every
\* caller that obtained a session obtained the stored one; and while no
\* attempt has failed there is one transport and one handshake at most.
C30_SerializedConnection ==
    cc_close.pc = "idle" =>
    \A s \in CoordinatorConfigs :
        /\ Cardinality(Connecting(s)) <= 1
        /\ \A t \in Connecting(s) : cc_connection_locks[s].holder = t
        /\ Cardinality({i \in Launched(s) : cc_launched[i].handshake = "ok"}) <= 1
        /\ \A i \in Launched(s) :
               \/ AttemptFailed(i)
               \/ \A j \in Launched(s) : j <= i
        /\ \A t \in Callers :
               (cc_task[t].srv = s /\ cc_task[t].got # None)
               => (cc_task[t].got = cc_sessions[s]
                   /\ cc_launched[cc_task[t].got].handshake = "ok")
        /\ (\A i \in Launched(s) : ~ AttemptFailed(i))
           => /\ Cardinality(Launched(s)) <= 1
              /\ \A t \in PastEnsureConnected(s) : cc_task[t].got = cc_sessions[s]
                                                    /\ cc_task[t].got # None

\* three callers raced on server a: two of them waited for the lock, one
\* transport was launched and all three hold its session
C30_Witness ==
    /\ cc_close.pc = "idle"
    /\ \A t \in Callers : cc_task[t].srv = "a" /\ cc_task[t].got = 1
    /\ Cardinality({t \in Callers : cc_task[t].waited}) = MaxCallers - 1
    /\ Len(cc_launched) = 1
    /\ cc_launched[1].handshake = "ok"

\* C31: no coroutine holds a server's connection lock while it awaits
\* session.call_tool, so tool calls on one open session run concurrently.
C31_NoLockDuringToolCall ==
    \A t \in Callers :
        cc_task[t].pc = "call"
        => \A s \in ServerNames : /\ cc_connection_locks[s].holder # t
                                  /\ \A k \in DOMAIN cc_connection_locks[s].waiters :
                                         cc_connection_locks[s].waiters[k] # t

\* two tool calls in flight on the same session, its server's lock free
C31_Witness ==
    \E t, u \in Callers :
        /\ t # u
        /\ cc_task[t].pc = "call" /\ cc_task[u].pc = "call"
        /\ cc_task[t].got = cc_task[u].got
        /\ cc_task[t].srv = cc_task[u].srv
        /\ cc_connection_locks[cc_task[t].srv].holder = None

\* the attempt is over: no coroutine is connecting with it any more
AttemptEnded(i) == \A t \in Callers : cc_task[t].tid # i

\* C32: when a connection attempt failed after its transport was opened, the
\* transport and the session it opened are closed once the error has left
\* _ensure_connected.
C32_FailedAttemptTornDown ==
    \A i \in 1..Len(cc_launched) :
        (/\ AttemptEnded(i)
         /\ cc_launched[i].session = "failed" \/ cc_launched[i].handshake = "failed")
        => (cc_launched[i].transport # "open" /\ cc_launched[i].session # "open")

\* C33: close() closes the session and the transport of every server it
\* finds connected, whichever closes raise: once the loop is past an item,
\* the session and the transport of that item were both closed.
C33_CloseAttemptsEverything ==
    \A j \in DOMAIN cc_close.items :
        (cc_close.pc # "idle" /\ j < cc_close.k)
        => (/\ cc_launched[cc_close.items[j][2]].session = "closed"
            /\ cc_launched[cc_close.items[j][2]].transport = "closed")

\* C40: a server's lock is held only by a coroutine that is connecting to the
\* server or was just handed the lock, never by one whose attempt has ended;
\* a failed attempt stores no session; so a coroutine waiting for the lock
\* always has a holder in front of it whose next step is enabled, and the
\* holder that finds no session starts an attempt of its own.
C40_LockReleasedAfterAttempt ==
    \A s \in ServerNames :
        LET lk == cc_connection_locks[s]
        IN  /\ lk.holder # None
               => /\ cc_task[lk.holder].srv = s
                  /\ cc_task[lk.holder].pc \in
                         {"lock", "stdio_enter", "session_enter", "initialize"}
            /\ lk.waiters # <<>> => lk.holder # None
            /\ \A k \in DOMAIN lk.waiters :
                   cc_task[lk.waiters[k]].pc = "lock" /\ cc_task[lk.waiters[k]].srv = s
            /\ \A t \in Callers :
                   (cc_task[t].pc = "lock" /\ cc_task[t].srv = s)
                   => (lk.holder = t \/ \E k \in DOMAIN lk.waiters : lk.waiters[k] = t)
            /\ cc_sessions[s] # None => cc_launched[cc_sessions[s]].handshake = "ok"
            /\ \A i \in Launched(s) :
                   AttemptFailed(i) => cc_sessions[s] # i

\* a caller that waited for the lock of server a while an attempt failed is
\* now making the second attempt
C40_Witness ==
    \E t \in Callers :
        /\ cc_task[t].waited
        /\ cc_task[t].srv = "a"
        /\ cc_task[t].pc = "session_enter"
        /\ cc_task[t].tid = 2
        /\ cc_launched[1].srv = "a"
        /\ cc_launched[1].handshake = "failed"
        /\ cc_sessions["a"] = None

\* C34: when the introspection of a server has returned, every context it
\* entered has been exited: no transport and no session is left open,
\* whatever ended the introspection.
C34_IntrospectionClosesContexts ==
    \A i \in configs :
        discover[i] = "done"
        => /\ contexts[i].transport # "open"
           /\ contexts[i].session # "open"
           /\ Entered(behaviour[i]).transport => contexts[i].transport = "closed"
           /\ Entered(behaviour[i]).session => contexts[i].session = "closed"

\* an introspection cut by the discovery timeout while it listed the tools
C34_Witness ==
    \E i \in configs :
        /\ discover[i] = "done"
        /\ behaviour[i]["list_tools"] = "outer_timeout"
        /\ contexts[i] = [transport |-> "closed", session |-> "closed"]
        /\ RecordOf(i).error # Null

\* C35: discover_all_servers returns, whatever number of servers is
\* configured and whatever they do.
C35_DiscoveryReturns == <>(results.returned)

\* eleven servers that all hang, and discover_all_servers has returned an
\* error record for each
C35_Witness ==
    /\ results.returned
    /\ Cardinality(configs) > DiscoveryConcurrency
    /\ \A i \in configs : behaviour[i] \in Hanging /\ RecordOf(i).error # Null

\* ------------------------------------------------------------------ manager claims, continued
\* C36: while the manager is UNINITIALIZED the session map and the two context
\* maps are empty, whatever cleanup() interleaves with.
C36_UninitializedMeansEmpty ==
    state = UNINITIALIZED
    => /\ Keys(sessions) = {}
       /\ Keys(session_contexts) = {}
       /\ Keys(stdio_contexts) = {}

\* a step of a cleanup() coroutine
ByCleanup == \E t \in Tasks : task'[t] # task[t] /\ "cleanup" \in {task[t].op, task'[t].op}

\* C37: a session that is stored for a server and open stays stored and open
\* through every step that is not a step of cleanup(): no rollback of another
\* attempt closes or removes it.
C37_EstablishedSessionKept ==
    [][\A s \in Servers :
          (sessions[s] # None /\ Usable(sessions[s]) /\ ~ ByCleanup)
          => (sessions'[s] = sessions[s] /\ Usable(sessions[s])')]_vars

\* no coroutine of the manager is running
Quiescent == \A t \in Tasks : task[t].pc \in {"idle", "done"}

\* C38: when cleanup() has reset the manager and no operation is running any
\* more, no transport and no session that the manager opened is open.
C38_NothingOpenAfterCleanup ==
    (state = UNINITIALIZED /\ Quiescent)
    => \A i \in Ids : transports[i] # "open" /\ clientSessions[i] # "open"

\* C39: every call_tool and list_tools that was started ends.
C39_OperationsEnd ==
    \A t \in Tasks :
        (task[t].op \in {"call_tool", "list_tools"} /\ task[t].pc # "done")
        ~> (task[t].pc = "done")

====
